---- MODULE Spec2Model ----
(***************************************************************************)
(* A model of the TikTok ETL pipeline of src/tiktok_extractor.py:          *)
(* TikTokExtractor.get_report_data (paginated metrics fetch),              *)
(* TikTokExtractor.get_ad_details (batched detail lookup),                 *)
(* TikTokExtractor.transform_to_bigquery_schema (row mapping),             *)
(* BigQueryLoader.load_data (warehouse append) and main (the run).         *)
(*                                                                         *)
(* Python values are tagged records [t, v, s]: t is the Python type, v the *)
(* number of an int, s the text of a str.  A dict is a function whose      *)
(* DOMAIN is its key set, so d.get(k, default) is a DOMAIN test.  Dates    *)
(* are day numbers; a datetime is a day number with a time of day.         *)
(***************************************************************************)
EXTENDS Integers, Sequences, FiniteSets, TLC

VARIABLES
    pc,               \* control position of the operation being run
    now,              \* datetime.now() read by main
    START_DATE,       \* main: START_DATE / get_report_data: payload["start_date"]
    END_DATE,         \* main: END_DATE / get_report_data: payload["end_date"]
    page,             \* get_report_data: payload["page"]
    all_data,         \* get_report_data: all_data
    responses,        \* the page responses received by the current get_report_data call
    ad_ids,           \* get_ad_details: ad_ids
    batch_start,      \* get_ad_details: loop variable i
    ad_details,       \* get_ad_details: ad_details
    outcomes,         \* the batch responses received by the current get_ad_details call
    raw_data,         \* main: raw_data / transform_to_bigquery_schema: raw_data
    transformed_data, \* main: transformed_data / load_data: data
    io,               \* every external call issued so far, in order
    table,            \* the rows of the warehouse table self.table_ref
    log,              \* the logger calls made so far, in order
    status,           \* how the operation ended: "running", "returned" or "raised"
    watermark,        \* the persisted watermark store (no code under src/ touches it)
    loads,            \* the load_data calls made so far: the data passed, how each ended
    runs              \* number of runs of main started so far

vars == <<pc, now, START_DATE, END_DATE, page, all_data, responses, ad_ids,
          batch_start, ad_details, outcomes, raw_data, transformed_data, io,
          table, log, status, watermark, loads, runs>>

----------------------------------------------------------------------------
(* Python values *)

Int_(n)  == [t |-> "int",  v |-> n, s |-> ""]
Str(x)   == [t |-> "str",  v |-> 0, s |-> x]
None     == [t |-> "none", v |-> 0, s |-> ""]
\* A float is held in millionths (6 decimal places), the precision round(x, 6) keeps.
Float(m) == [t |-> "float", v |-> m, s |-> ""]

EmptyDict == [k \in {} |-> None]

\* d.get(k, default) of a dict
Get(d, k, default) == IF k \in DOMAIN d THEN d[k] ELSE default

\* Python truth value of x (`if x`)
Truthy(x) ==
    CASE x.t = "none"  -> FALSE
      [] x.t = "int"   -> x.v # 0
      [] x.t = "float" -> x.v # 0
      [] x.t = "str"   -> x.s # ""

IsNumber(x) == x.t \in {"int", "float"}

\* Integer division rounding toward zero, as int() applied to a float quotient.
TruncDiv(a, b) == IF a >= 0 THEN a \div b ELSE -((-a) \div b)

----------------------------------------------------------------------------
(* TikTokExtractor.transform_to_bigquery_schema and _calculate_cpr *)

\* The result of evaluating an expression: a value, or an exception raised.
Ok(x)  == [ok |-> TRUE,  val |-> x]
Raised == [ok |-> FALSE, val |-> None]

\* a / b rounded to the nearest integer, ties to the even one (b > 0)
RoundHalfEven(a, b) ==
    LET q == a \div b
        r == a - q * b
    IN  IF 2 * r < b THEN q
        ELSE IF 2 * r > b THEN q + 1
        ELSE IF q % 2 = 0 THEN q ELSE q + 1

Million == 1000000

\* A number in millionths.
Micros(x) == IF x.t = "int" THEN x.v * Million ELSE x.v

\* row.get("metrics", {}).get(name, 0)
MetricOf(row, name) == Get(Get(row, "metrics", EmptyDict), name, Int_(0))

\* row.get("dimensions", {}).get(name, ""): an empty string for a missing key
DimensionOfOrEmpty(row, name) == Get(Get(row, "dimensions", EmptyDict), name, Str(""))

\* row.get("dimensions", {}).get(name)
DimensionOf(row, name) == Get(Get(row, "dimensions", EmptyDict), name, None)

\* x if x else None
OrNone(x) == IF Truthy(x) THEN x ELSE None

\* int(x): truncation of a float, the int itself; a non-numeric str raises
PyInt(x) ==
    CASE x.t = "int"   -> Ok(x)
      [] x.t = "float" -> Ok(Int_(TruncDiv(x.v, Million)))
      [] OTHER         -> Raised

\* int(video_views * 0.75) if video_views else None
Video75RoundedUp(video_views) ==
    IF ~Truthy(video_views) THEN Ok(None)
    ELSE CASE video_views.t = "int"   -> Ok(Int_(TruncDiv(3 * video_views.v + 3, 4)))
           [] video_views.t = "float" -> Ok(Int_(TruncDiv(3 * video_views.v, 4 * Million)))
           [] OTHER                   -> Raised

Video75(video_views) ==
    IF ~Truthy(video_views) THEN Ok(None)
    ELSE CASE video_views.t = "int"   -> Ok(Int_(TruncDiv(3 * video_views.v, 4)))
           [] video_views.t = "float" -> Ok(Int_(TruncDiv(3 * video_views.v, 4 * Million)))
           [] OTHER                   -> Raised

\* int(video_views) if video_views else None
Video100(video_views) ==
    IF ~Truthy(video_views) THEN Ok(None) ELSE PyInt(video_views)

\* _calculate_cpr with the quotient cut to 6 decimals instead of rounded.
calculate_cpr_truncating(spend, reach) ==
    IF ~Truthy(reach) THEN Ok(None)
    ELSE IF ~IsNumber(reach) THEN Raised
    ELSE IF reach.v <= 0 THEN Ok(None)
    ELSE IF ~IsNumber(spend) THEN Raised
    ELSE IF reach.t = "int"
         THEN Ok(Float(TruncDiv(Micros(spend), reach.v)))
         ELSE Ok(Float(TruncDiv(Micros(spend) * Million, reach.v)))

\* _calculate_cpr(spend, reach): round(spend / reach, 6) if reach and reach > 0
calculate_cpr(spend, reach) ==
    IF ~Truthy(reach) THEN Ok(None)
    ELSE IF ~IsNumber(reach) THEN Raised            \* str > 0 is a TypeError
    ELSE IF reach.v <= 0 THEN Ok(None)
    ELSE IF ~IsNumber(spend) THEN Raised            \* str / int, None / int
    ELSE IF reach.t = "int"
         THEN Ok(Float(RoundHalfEven(Micros(spend), reach.v)))
         ELSE Ok(Float(RoundHalfEven(Micros(spend) * Million, reach.v)))

\* The body of the loop over raw_data: the transformed_row built for one row.
TransformRow(row, details) ==
    LET ad_id       == DimensionOf(row, "ad_id")
        ad_info     == Get(details, ad_id, EmptyDict)
        video_views == MetricOf(row, "video_play_actions")
        video_2s    == MetricOf(row, "video_watched_2s")
        video_6s    == MetricOf(row, "video_watched_6s")
        video_75    == Video75(video_views)
        video_100   == Video100(video_views)
        cpr         == calculate_cpr(MetricOf(row, "spend"), MetricOf(row, "reach"))
    IN  IF ~video_75.ok \/ ~video_100.ok \/ ~cpr.ok THEN Raised
        ELSE Ok([
            DATE                    |-> DimensionOf(row, "stat_time_day"),
            VIDEO_AVERAGE_PLAY_TIME |-> MetricOf(row, "average_video_play"),
            VIDEO_VIEWS             |-> video_views,
            VIDEO_VIEWS_AT_25       |-> OrNone(video_2s),
            VIDEO_VIEWS_AT_50       |-> OrNone(video_6s),
            VIDEO_VIEWS_AT_75       |-> video_75.val,
            VIDEO_VIEWS_AT_100      |-> video_100.val,
            FORMAT                  |-> Get(ad_info, "creative_material_mode", Str("")),
            TEXT                    |-> Get(ad_info, "ad_text", Str("")),
            CREATIVE                |-> ad_id,
            CALL_TO_ACTION          |-> Get(ad_info, "call_to_action", Str("")),
            FREQUENCY               |-> MetricOf(row, "frequency"),
            AMOUNT_SPENT_USD        |-> MetricOf(row, "spend"),
            REACH                   |-> MetricOf(row, "reach"),
            CTR_DESTINATION         |-> MetricOf(row, "ctr"),
            CURRENCY                |-> Str("USD"),
            IMPRESSIONS             |-> MetricOf(row, "impressions"),
            CPM                     |-> MetricOf(row, "cpm"),
            CPC_DESTINATION         |-> MetricOf(row, "cpc"),
            LINK_CLICKS             |-> MetricOf(row, "clicks"),
            CPR                     |-> cpr.val,
            CAMPAIGN_NAME           |-> Get(ad_info, "campaign_name", Str("")),
            AD_GROUP_NAME           |-> Get(ad_info, "adgroup_name", Str("")),
            AD_NAME                 |-> Get(ad_info, "ad_name", Str("")),
            PLATFORM                |-> Str("TikTok"),
            LANGUAGE                |-> Str("en")])

\* transform_to_bigquery_schema leaving out the rows without an ad_id, as
\* main does when it collects ad_ids.
transform_skipping_rows(raw, details) ==
    LET kept == SelectSeq(raw, LAMBDA row : Truthy(DimensionOf(row, "ad_id")))
    IN  IF \E k \in 1..Len(kept) : ~TransformRow(kept[k], details).ok
        THEN [ok |-> FALSE, val |-> <<>>]
        ELSE [ok |-> TRUE,  val |-> [k \in 1..Len(kept) |-> TransformRow(kept[k], details).val]]

\* transform_to_bigquery_schema(raw_data, ad_details): the list of the rows'
\* transformed_row in order, or the exception the first failing row raises.
transform_to_bigquery_schema(raw, details) ==
    IF \E k \in 1..Len(raw) : ~TransformRow(raw[k], details).ok
    THEN [ok |-> FALSE, val |-> <<>>]
    ELSE [ok |-> TRUE,  val |-> [k \in 1..Len(raw) |-> TransformRow(raw[k], details).val]]

----------------------------------------------------------------------------
(* BigQueryLoader.load_data *)

\* The external world a call acts on: the calls issued, the table, the log.
World(calls, rows, logged) == [io |-> calls, table |-> rows, log |-> logged]

\* self.client.load_table_from_json(data, self.table_ref, job_config)
LoadJob(data, write_disposition) ==
    [call |-> "load_table_from_json", rows |-> data,
     write_disposition |-> write_disposition]

\* load_data without its `if not data: return` guard
load_data_unguarded(data, write_disposition, job_ok, w) ==
    IF job_ok
    THEN [status |-> "returned",
          world  |-> World(Append(w.io, LoadJob(data, write_disposition)),
                           w.table \o data,
                           Append(w.log, "info: Loaded rows"))]
    ELSE [status |-> "raised",
          world  |-> World(Append(w.io, LoadJob(data, write_disposition)),
                           w.table,
                           Append(w.log, "error: Failed to load data to BigQuery"))]

\* load_data(data, write_disposition) on world w; job_ok is whether the load
\* job (load_table_from_json and job.result()) ends without an exception.
\* A load job is atomic: a failed job leaves the table as it was.  Every call
\* passes WRITE_APPEND (main, and the default): a finished job appends data.
load_data(data, write_disposition, job_ok, w) ==
    IF data = <<>>
    THEN [status |-> "returned",
          world  |-> World(w.io, w.table, Append(w.log, "warning: No data to load to BigQuery"))]
    ELSE IF job_ok
    THEN [status |-> "returned",
          world  |-> World(Append(w.io, LoadJob(data, write_disposition)),
                           w.table \o data,
                           Append(w.log, "info: Loaded rows"))]
    ELSE [status |-> "raised",
          world  |-> World(Append(w.io, LoadJob(data, write_disposition)),
                           w.table,
                           Append(w.log, "error: Failed to load data to BigQuery"))]

----------------------------------------------------------------------------
(* TikTokExtractor.get_report_data *)

page_size == 1000

\* requests.post(endpoint, headers=headers, json=payload)
ReportRequest(start_date, end_date, pg) ==
    [call |-> "POST /report/integrated/get/", start_date |-> start_date,
     end_date |-> end_date, page |-> pg, page_size |-> page_size]

\* What a page request can bring back: an exception from requests.post,
\* raise_for_status or response.json(), or a decoded result.  In a result,
\* list is data.list ([] when absent) and total_page is page_info.total_page
\* as a set: {} when the response carries none.
HttpFailure == [kind |-> "exception", code |-> 0, list |-> <<>>, total_page |-> {}]
Result(code, list, total) ==
    [kind |-> "result", code |-> code, list |-> list, total_page |-> total]

\* page_info.get("total_page", 2): a response without a page count read as
\* having a second page
TotalPageDefaultTwo(resp) ==
    IF resp.total_page = {} THEN 2 ELSE CHOOSE n \in resp.total_page : TRUE

\* page_info.get("total_page", 1)
TotalPage(resp) == IF resp.total_page = {} THEN 1 ELSE CHOOSE n \in resp.total_page : TRUE

FetchFailed(resp) == resp.kind = "exception" \/ resp.code # 0

\* One pass of the `while True` loop with the response resp: the loop raises,
\* breaks (get_report_data returns all_data) or goes on with the next page.
\* This variant tests `>` where the code tests `>=`.
ReportPageOffByOne(pg, acc, resp) ==
    IF resp.kind = "exception"
    THEN [ctl |-> "raise", page |-> pg, all_data |-> acc,
          log |-> <<"info: Fetching TikTok data", "error: HTTP request failed">>]
    ELSE IF resp.code # 0
    THEN [ctl |-> "raise", page |-> pg, all_data |-> acc,
          log |-> <<"info: Fetching TikTok data", "error: TikTok API error",
                    "error: Error fetching TikTok data">>]
    ELSE IF resp.list = <<>>
    THEN [ctl |-> "return", page |-> pg, all_data |-> acc,
          log |-> <<"info: Fetching TikTok data", "info: Successfully fetched rows">>]
    ELSE IF pg > TotalPage(resp)
    THEN [ctl |-> "return", page |-> pg, all_data |-> acc \o resp.list,
          log |-> <<"info: Fetching TikTok data", "info: Successfully fetched rows">>]
    ELSE [ctl |-> "next", page |-> pg + 1, all_data |-> acc \o resp.list,
          log |-> <<"info: Fetching TikTok data">>]

ReportPage(pg, acc, resp) ==
    IF resp.kind = "exception"
    THEN [ctl |-> "raise", page |-> pg, all_data |-> acc,
          log |-> <<"info: Fetching TikTok data", "error: HTTP request failed">>]
    ELSE IF resp.code # 0
    THEN [ctl |-> "raise", page |-> pg, all_data |-> acc,
          log |-> <<"info: Fetching TikTok data", "error: TikTok API error",
                    "error: Error fetching TikTok data">>]
    ELSE IF resp.list = <<>>
    THEN [ctl |-> "return", page |-> pg, all_data |-> acc,
          log |-> <<"info: Fetching TikTok data", "info: Successfully fetched rows">>]
    ELSE IF pg >= TotalPage(resp)
    THEN [ctl |-> "return", page |-> pg, all_data |-> acc \o resp.list,
          log |-> <<"info: Fetching TikTok data", "info: Successfully fetched rows">>]
    ELSE [ctl |-> "next", page |-> pg + 1, all_data |-> acc \o resp.list,
          log |-> <<"info: Fetching TikTok data">>]

----------------------------------------------------------------------------
(* TikTokExtractor.get_ad_details *)

batch_size == 100

ADVERTISER_ID == "your_advertiser_id_here"

\* ad_ids[i:i + batch_size], i counted from 0 as in the code
BatchIds(ids, i) ==
    SubSeq(ids, i + 1, IF i + batch_size < Len(ids) THEN i + batch_size ELSE Len(ids))

\* The payload built for a batch; the code builds it and does not send it.
DetailPayload(batch_ids) ==
    [advertiser_id |-> ADVERTISER_ID, filtering |-> [ad_ids |-> batch_ids]]

\* requests.get(endpoint, headers=headers, params={"advertiser_id": ...})
DetailRequest(batch_ids) ==
    [call |-> "GET /ad/get/", params |-> [advertiser_id |-> ADVERTISER_ID]]

\* for ad in ads: ad_details[ad["ad_id"]] = ad, up to the first ad without an
\* "ad_id" key, where the subscript raises KeyError: the entries written
\* before it stay in ad_details.
RECURSIVE MergeAds(_, _)
MergeAds(details, ads) ==
    IF ads = <<>> THEN [ok |-> TRUE, details |-> details]
    ELSE IF "ad_id" \notin DOMAIN Head(ads) THEN [ok |-> FALSE, details |-> details]
    ELSE LET ad == Head(ads)
             id == ad["ad_id"]
         IN  MergeAds([k \in DOMAIN details \cup {id} |->
                          IF k = id THEN ad ELSE details[k]], Tail(ads))

\* The try block of one batch with the response resp.  ok: the batch went
\* through without an exception and with code 0.
DetailBatch(details, resp) ==
    IF resp.kind = "exception"
    THEN [ok |-> FALSE, details |-> details,
          log |-> <<"warning: Could not fetch ad details for batch">>]
    ELSE IF resp.code # 0
    THEN [ok |-> FALSE, details |-> details, log |-> <<>>]
    ELSE LET m == MergeAds(details, resp.list)
         IN  [ok |-> m.ok, details |-> m.details,
              log |-> IF m.ok THEN <<>>
                      ELSE <<"warning: Could not fetch ad details for batch">>]

----------------------------------------------------------------------------
(* Inputs: the rows, detail records and responses the operations are run on *)

SeqsUpTo(S, n) == UNION {[1..k -> S] : k \in 0..n}

\* One row of data.list as the report API returns it (payload["metrics"]).
\* A value left out of present is a key the row does not carry.
RawRow(ad, day, video_play_actions, video_watched_2s, video_watched_6s, spend, reach) ==
    [dimensions |-> [ad_id |-> ad, stat_time_day |-> day],
     metrics    |-> [spend |-> spend, impressions |-> Int_(5000), clicks |-> Int_(100),
                     ctr |-> Int_(2), cpm |-> Int_(10), cpc |-> Int_(1),
                     reach |-> reach, frequency |-> Int_(1),
                     video_play_actions |-> video_play_actions,
                     video_watched_2s |-> video_watched_2s,
                     video_watched_6s |-> video_watched_6s,
                     average_video_play |-> Int_(8),
                     average_video_play_per_user |-> Int_(9)]]

\* A row whose dimensions carry no ad_id.
RowWithoutAdId(day) ==
    [dimensions |-> [stat_time_day |-> day],
     metrics    |-> [spend |-> Int_(1), reach |-> Int_(1)]]

\* One ad of the ad/get response (payload["fields"]).
Ad(id, name) ==
    [ad_id |-> Str(id), ad_name |-> Str(name), adgroup_name |-> Str("adgroup"),
     campaign_name |-> Str("campaign"), ad_text |-> Str("text"),
     call_to_action |-> Str("LEARN_MORE"), creative_material_mode |-> Str("VIDEO")]

\* An ad record without its ad_id.
AdWithoutId(name) == [ad_name |-> Str(name)]

DetailsOf(ads) == MergeAds(EmptyDict, ads).details

----------------------------------------------------------------------------
(* Variables an operation run on its own leaves at rest *)

NoClock  == now = <<0, 0>> /\ runs = 0
NoFetch  == START_DATE = 0 /\ END_DATE = 0 /\ page = 1 /\ all_data = <<>> /\ responses = <<>>
NoDetail == ad_ids = <<>> /\ batch_start = 0 /\ outcomes = <<>>
NoWorld  == io = <<>> /\ table = <<>> /\ log = <<>> /\ watermark = {} /\ loads = <<>>

clockVars  == <<now, runs>>
fetchVars  == <<START_DATE, END_DATE, page, all_data, responses>>
detailVars == <<ad_ids, batch_start, outcomes>>

----------------------------------------------------------------------------
(* transform_to_bigquery_schema run on its own: SpecMap *)

MaxVideoViews == 5
MaxMapRows    == 2

VideoViewCounts == {Int_(n) : n \in 0..MaxVideoViews} \cup {Int_(1000)}

\* Rows over the video counters, with the spec's spend 100 and reach 50.
VideoRows ==
    {RawRow(Str("a1"), Str("2025-03-03"), v, a, b, Int_(100), Int_(50)) :
        v \in VideoViewCounts, a \in {Int_(0), Int_(900)}, b \in {Int_(0), Int_(700)}}

\* Rows over spend and reach: reach zero, negative, null and positive, with
\* quotients that are exact (100/50) and that need rounding (100/3, 2/3,
\* 12.34/7); none of the quotients lies half way between two 6-decimal values.
Spends  == {Int_(0), Int_(2), Int_(100), Float(12340000)}
Reaches == {Int_(0), Int_(-5), None, Int_(3), Int_(7), Int_(50)}

CprRows ==
    {RawRow(Str("a1"), Str("2025-03-05"), Int_(1000), Int_(900), Int_(700), s, r) :
        s \in Spends, r \in Reaches}

\* Rows whose metrics are missing, null or not numbers.
OddRows ==
    {RawRow(Str("a2"), Str("2025-03-04"), Str("1000"), Int_(900), Int_(700),
            Int_(100), Int_(0)),
     RawRow(Str("a2"), Str("2025-03-04"), None, Int_(900), Int_(700), Int_(100), Int_(50)),
     RawRow(Str("a2"), Str("2025-03-04"), Int_(4), Int_(3), Int_(2), Str("12.5"), Int_(0)),
     RawRow(Str("a2"), Str("2025-03-04"), Int_(4), Int_(3), Int_(2), Int_(100), Str("50")),
     RowWithoutAdId(Str("2025-03-03")),
     [dimensions |-> [ad_id |-> Str("a1"), stat_time_day |-> Str("2025-03-06")],
      metrics    |-> [spend |-> Int_(100)]],
     [dimensions |-> [ad_id |-> Str("a1"), stat_time_day |-> Str("2025-03-06")]],
     [metrics |-> [spend |-> Int_(100), reach |-> Int_(50)]]}

MapRows == VideoRows \cup CprRows \cup OddRows

Row1 == RawRow(Str("a1"), Str("2025-03-03"), Int_(1000), Int_(900), Int_(700), Int_(100), Int_(50))
Row2 == RawRow(Str("a2"), Str("2025-03-03"), Int_(0), Int_(0), Int_(0), Int_(100), Int_(0))
Row3 == RowWithoutAdId(Str("2025-03-04"))

\* The lists mapped: one row of MapRows before or after up to MaxMapRows - 1
\* of the three sample rows.
MapLists ==
    {<<>>} \cup
    UNION {{<<r>> \o t, t \o <<r>>} :
              r \in MapRows, t \in SeqsUpTo({Row1, Row2, Row3}, MaxMapRows - 1)}

\* The detail map: empty, with the ad a1 in full, or with a record of a1 that
\* carries an ad_id and a name only.
MapDetails ==
    {EmptyDict, DetailsOf(<<Ad("a1", "Video A")>>),
     DetailsOf(<<[ad_id |-> Str("a1"), ad_name |-> Str("Video A")]>>)}

InitMap ==
    /\ pc = "transform" /\ status = "running"
    /\ NoClock /\ NoFetch /\ NoDetail /\ NoWorld
    /\ raw_data \in MapLists
    /\ ad_details \in MapDetails
    /\ transformed_data = <<>>

\* transform_to_bigquery_schema(raw_data, ad_details)
Transform ==
    /\ pc = "transform"
    /\ LET r == transform_to_bigquery_schema(raw_data, ad_details)
       IN  /\ transformed_data' = r.val
           /\ status' = IF r.ok THEN "returned" ELSE "raised"
           /\ log' = IF r.ok THEN Append(log, "info: Transformed rows") ELSE log
    /\ pc' = "done"
    /\ UNCHANGED <<clockVars, fetchVars, detailVars, ad_details, raw_data, io, table,
                   watermark, loads>>

NextMap == Transform

SpecMap == InitMap /\ [][NextMap]_vars

\* Whether x is a non-negative int.
IsCount(x) == x.t = "int" /\ x.v >= 0

HasCounts(row) ==
    /\ "metrics" \in DOMAIN row
    /\ {"video_play_actions", "video_watched_2s", "video_watched_6s"} \subseteq DOMAIN row.metrics
    /\ IsCount(row.metrics.video_play_actions)
    /\ IsCount(row.metrics.video_watched_2s)
    /\ IsCount(row.metrics.video_watched_6s)

\* C10: quartile derivation.  For every metric row with non-negative integer
\* video_play_actions v, video_watched_2s a and video_watched_6s b the mapped
\* row has VIDEO_VIEWS = v, VIDEO_VIEWS_AT_25 = a if a is nonzero else null,
\* VIDEO_VIEWS_AT_50 = b if b is nonzero else null, VIDEO_VIEWS_AT_75 =
\* floor(0.75 * v) if v is nonzero else null (the integer q with
\* 4q <= 3v < 4q + 4), and VIDEO_VIEWS_AT_100 = v if v is nonzero else null.
C10_QuartileDerivation ==
    (pc = "done" /\ status = "returned") =>
        \A k \in 1..Len(raw_data) :
            HasCounts(raw_data[k]) =>
                LET v   == raw_data[k].metrics.video_play_actions
                    a   == raw_data[k].metrics.video_watched_2s
                    b   == raw_data[k].metrics.video_watched_6s
                    out == transformed_data[k]
                IN  /\ out.VIDEO_VIEWS = v
                    /\ out.VIDEO_VIEWS_AT_25 = (IF a.v # 0 THEN a ELSE None)
                    /\ out.VIDEO_VIEWS_AT_50 = (IF b.v # 0 THEN b ELSE None)
                    /\ IF v.v # 0
                       THEN /\ out.VIDEO_VIEWS_AT_75.t = "int"
                            /\ 4 * out.VIDEO_VIEWS_AT_75.v <= 3 * v.v
                            /\ 3 * v.v < 4 * out.VIDEO_VIEWS_AT_75.v + 4
                            /\ out.VIDEO_VIEWS_AT_100 = v
                       ELSE /\ out.VIDEO_VIEWS_AT_75 = None
                            /\ out.VIDEO_VIEWS_AT_100 = None

\* The spec's example has been mapped: 1000, 900, 700 gave 900, 700, 750, 1000;
\* and a row with no plays was mapped to null quartiles.
C10_Witness ==
    /\ pc = "done" /\ status = "returned" /\ Len(raw_data) = 2
    /\ HasCounts(raw_data[1]) /\ HasCounts(raw_data[2])
    /\ raw_data[1].metrics.video_play_actions = Int_(1000)
    /\ raw_data[1].metrics.video_watched_2s = Int_(900)
    /\ raw_data[1].metrics.video_watched_6s = Int_(700)
    /\ transformed_data[1].VIDEO_VIEWS_AT_25 = Int_(900)
    /\ transformed_data[1].VIDEO_VIEWS_AT_50 = Int_(700)
    /\ transformed_data[1].VIDEO_VIEWS_AT_75 = Int_(750)
    /\ transformed_data[1].VIDEO_VIEWS_AT_100 = Int_(1000)
    /\ raw_data[2].metrics.video_play_actions = Int_(0)
    /\ transformed_data[2].VIDEO_VIEWS_AT_75 = None

\* Whether every metric the row carries is a number.
NumericMetrics(row) ==
    \A name \in DOMAIN Get(row, "metrics", EmptyDict) : IsNumber(row.metrics[name])

\* Whether the row carries a spend that is a number and a reach that is a
\* whole number, null or left out.
HasSpendAndReach(row) ==
    /\ "metrics" \in DOMAIN row
    /\ "spend" \in DOMAIN row.metrics /\ IsNumber(row.metrics.spend)
    /\ "reach" \in DOMAIN row.metrics => row.metrics.reach.t \in {"int", "none"}

\* x as a non-negative number
Abs(x) == IF x >= 0 THEN x ELSE -x

\* C11: cost per reach.  A list of rows whose metrics are all numbers is
\* mapped without an exception, whatever the reach (so no division by a zero
\* reach is attempted); and in a mapped row with numeric spend, CPR is null
\* when reach is zero, negative, null or missing, and otherwise the 6-decimal
\* value nearest to spend / reach: in millionths, the m with
\* 2 * |m * reach - spend * 10^6| <= reach.
C11_CostPerReach ==
    pc = "done" =>
        /\ (\A k \in 1..Len(raw_data) : NumericMetrics(raw_data[k])) => status = "returned"
        /\ status = "returned" =>
               \A k \in 1..Len(raw_data) :
                   HasSpendAndReach(raw_data[k]) =>
                       LET spend == raw_data[k].metrics.spend
                           reach == IF "reach" \in DOMAIN raw_data[k].metrics
                                    THEN raw_data[k].metrics.reach ELSE None
                           cpr   == transformed_data[k].CPR
                       IN  IF reach.t = "int" /\ reach.v > 0
                           THEN /\ cpr.t = "float"
                                /\ 2 * Abs(cpr.v * reach.v - Micros(spend)) <= reach.v
                           ELSE cpr = None

\* The spec's examples have been mapped in one list: 100/50 to 2.0 and 100/0
\* to null.
C11_Witness ==
    /\ pc = "done" /\ status = "returned" /\ Len(raw_data) = 2
    /\ raw_data[2] = Row2 /\ transformed_data[2].CPR = None
    /\ HasSpendAndReach(raw_data[1])
    /\ raw_data[1].metrics.spend = Int_(100)
    /\ raw_data[1].metrics.reach = Int_(50)
    /\ transformed_data[1].CPR = Float(2000000)

\* The columns filled from the ad's detail record, and the key each reads.
DetailColumns ==
    [FORMAT |-> "creative_material_mode", TEXT |-> "ad_text",
     CALL_TO_ACTION |-> "call_to_action", AD_NAME |-> "ad_name",
     AD_GROUP_NAME |-> "adgroup_name", CAMPAIGN_NAME |-> "campaign_name"]

\* The value the specification gives a detail column whose key is absent.
DefaultOf(column) == IF column = "FORMAT" THEN Str("VIDEO") ELSE Str("")

\* C12: missing-detail defaulting.  A list of rows with numeric metrics is
\* mapped without an exception whether or not the detail map knows the rows'
\* ads; a mapped row whose ad_id has no entry in the detail map has
\* FORMAT = "VIDEO" and TEXT, CALL_TO_ACTION, AD_NAME, AD_GROUP_NAME and
\* CAMPAIGN_NAME = ""; and FORMAT is "VIDEO" too when the entry exists but
\* carries no creative format.
C12_MissingDetailDefaults ==
    pc = "done" =>
        /\ (\A k \in 1..Len(raw_data) : NumericMetrics(raw_data[k])) => status = "returned"
        /\ status = "returned" =>
               \A k \in 1..Len(raw_data) :
                   LET ad_id == raw_data[k].dimensions.ad_id
                       known == /\ "dimensions" \in DOMAIN raw_data[k]
                                /\ "ad_id" \in DOMAIN raw_data[k].dimensions
                                /\ ad_id \in DOMAIN ad_details
                   IN  /\ ~known =>
                              \A column \in DOMAIN DetailColumns :
                                  transformed_data[k][column] = DefaultOf(column)
                       /\ (known /\ "creative_material_mode" \notin DOMAIN ad_details[ad_id])
                              => transformed_data[k].FORMAT = DefaultOf("FORMAT")

\* The numeric columns that may not be null, and the metric each is read from.
NumericColumns ==
    [VIDEO_VIEWS |-> "video_play_actions", REACH |-> "reach",
     IMPRESSIONS |-> "impressions", LINK_CLICKS |-> "clicks",
     AMOUNT_SPENT_USD |-> "spend", FREQUENCY |-> "frequency",
     CTR_DESTINATION |-> "ctr", CPM |-> "cpm", CPC_DESTINATION |-> "cpc",
     VIDEO_AVERAGE_PLAY_TIME |-> "average_video_play"]

\* Whether x is the number zero.
IsZero(x) == IsNumber(x) /\ x.v = 0

\* C13: coercion never propagates.  Whatever the metric values (missing, null
\* or not numbers), the mapping does not raise; each of the ten non-nullable
\* numeric columns of every mapped row is a number, and it is zero where the
\* row's metric is missing, null or not a number.
C13_CoercionNeverPropagates ==
    pc = "done" =>
        /\ status = "returned"
        /\ \A k \in 1..Len(transformed_data) :
               \A column \in DOMAIN NumericColumns :
                   LET metrics == Get(raw_data[k], "metrics", EmptyDict)
                       name    == NumericColumns[column]
                       out     == transformed_data[k][column]
                   IN  /\ IsNumber(out)
                       /\ (name \notin DOMAIN metrics \/ ~IsNumber(metrics[name]))
                              => IsZero(out)

\* The 26 columns of the warehouse table (expected_fields of the test harness).
expected_fields ==
    {"DATE", "VIDEO_AVERAGE_PLAY_TIME", "FORMAT", "VIDEO_VIEWS_AT_50",
     "FREQUENCY", "AMOUNT_SPENT_USD", "VIDEO_VIEWS_AT_75", "VIDEO_VIEWS_AT_25",
     "CPR", "REACH", "CTR_DESTINATION", "CURRENCY", "IMPRESSIONS", "CPM",
     "CPC_DESTINATION", "LINK_CLICKS", "CALL_TO_ACTION", "TEXT", "PLATFORM",
     "LANGUAGE", "CREATIVE", "AD_NAME", "VIDEO_VIEWS_AT_100", "VIDEO_VIEWS",
     "AD_GROUP_NAME", "CAMPAIGN_NAME"}

\* Whether the row carries an ad_id.
HasAdId(row) == "dimensions" \in DOMAIN row /\ "ad_id" \in DOMAIN row.dimensions

\* C14: fixed schema.  Every row the mapper produces, whatever its input row
\* lacks (dimensions, metrics, a detail record), has exactly the 26 column
\* keys, CURRENCY = "USD", LANGUAGE = "en", PLATFORM = "TikTok", and CREATIVE
\* equal to the input row's own ad_id (null when the row carries none).
C14_FixedSchema ==
    (pc = "done" /\ status = "returned") =>
        /\ Len(transformed_data) = Len(raw_data)
        /\ \A k \in 1..Len(transformed_data) :
               LET out == transformed_data[k]
               IN  /\ DOMAIN out = expected_fields
                   /\ Cardinality(DOMAIN out) = 26
                   /\ out.CURRENCY = Str("USD")
                   /\ out.LANGUAGE = Str("en")
                   /\ out.PLATFORM = Str("TikTok")
                   /\ out.CREATIVE = (IF HasAdId(raw_data[k])
                                      THEN raw_data[k].dimensions.ad_id ELSE None)

\* Two rows have been mapped with an empty detail map: one that carries no
\* ad_id, then the sample row of ad a1.
C14_Witness ==
    /\ pc = "done" /\ status = "returned" /\ Len(transformed_data) = 2
    /\ ad_details = EmptyDict
    /\ ~HasAdId(raw_data[1]) /\ transformed_data[1].CREATIVE = None
    /\ raw_data[2] = Row1 /\ transformed_data[2].CREATIVE = Str("a1")
    /\ DOMAIN transformed_data[1] = DOMAIN transformed_data[2]

\* Whether the row carries a stat_time_day.
HasDay(row) == "dimensions" \in DOMAIN row /\ "stat_time_day" \in DOMAIN row.dimensions

\* C17: the row mapping is one-to-one and order-preserving.  A call that
\* returns gives a list as long as its input whose i-th row carries the
\* stat_time_day (as DATE) and the ad_id (as CREATIVE) of the i-th input row,
\* null where the input row has none; and it leaves the input rows and the
\* detail map as they were.
C17_OneToOneInOrder ==
    [][(pc = "transform" /\ pc' = "done" /\ status' = "returned") =>
          /\ raw_data' = raw_data
          /\ ad_details' = ad_details
          /\ Len(transformed_data') = Len(raw_data)
          /\ \A i \in 1..Len(raw_data) :
                 /\ i \in DOMAIN transformed_data'
                 /\ transformed_data'[i].DATE =
                        (IF HasDay(raw_data[i])
                         THEN raw_data[i].dimensions.stat_time_day ELSE None)
                 /\ transformed_data'[i].CREATIVE =
                        (IF HasAdId(raw_data[i])
                         THEN raw_data[i].dimensions.ad_id ELSE None)]_vars

\* A list of two rows of different days has been mapped, the later day first
\* and its row without an ad_id, and the output keeps that order.
C17_Witness ==
    /\ pc = "done" /\ status = "returned"
    /\ raw_data = <<Row3, Row1>>
    /\ Len(transformed_data) = 2
    /\ transformed_data[1].DATE = Str("2025-03-04")
    /\ transformed_data[1].CREATIVE = None
    /\ transformed_data[2].DATE = Str("2025-03-03")
    /\ transformed_data[2].CREATIVE = Str("a1")

----------------------------------------------------------------------------
(* BigQueryLoader.load_data run on its own: SpecLoad *)

MaxLoads == 3

\* The output row of ad `ad` on day `day`, as the row mapping produces it.
OutputRow(ad, day, video_play_actions) ==
    TransformRow(RawRow(Str(ad), Str(day), Int_(video_play_actions), Int_(0), Int_(0),
                        Int_(100), Int_(50)), EmptyDict).val

\* Datasets with one row per (ad, day).
Datasets ==
    {<<>>,
     <<OutputRow("a1", "2025-03-03", 1000)>>,
     <<OutputRow("a1", "2025-03-03", 1000), OutputRow("a2", "2025-03-03", 500)>>,
     <<OutputRow("a1", "2025-03-04", 800)>>}

\* Any warehouse table state: empty, rows of another date, rows of the dates
\* and ads the datasets carry.
InitialTables ==
    {<<>>,
     <<OutputRow("a1", "2025-03-02", 700)>>,
     <<OutputRow("a1", "2025-03-03", 900)>>,
     <<OutputRow("a1", "2025-03-02", 700), OutputRow("a2", "2025-03-03", 500)>>}

InitLoad ==
    /\ pc = "load" /\ status = "running"
    /\ NoClock /\ NoFetch /\ NoDetail
    /\ raw_data = <<>> /\ ad_details = EmptyDict /\ transformed_data = <<>>
    /\ io = <<>> /\ log = <<>> /\ watermark = {} /\ loads = <<>>
    /\ table \in InitialTables

\* loader.load_data(data, write_disposition="WRITE_APPEND"), as main calls it
Load ==
    /\ pc = "load"
    /\ Len(loads) < MaxLoads
    /\ \E data \in Datasets, job_ok \in BOOLEAN :
        LET r == load_data(data, "WRITE_APPEND", job_ok, World(io, table, log))
        IN  /\ transformed_data' = data
            /\ io' = r.world.io
            /\ table' = r.world.table
            /\ log' = r.world.log
            /\ status' = r.status
            /\ loads' = Append(loads, [data |-> data, status |-> r.status,
                                       calls |-> Len(r.world.io) - Len(io),
                                       before |-> table])
    /\ UNCHANGED <<pc, clockVars, fetchVars, detailVars, ad_details, raw_data, watermark>>

NextLoad == Load

SpecLoad == InitLoad /\ [][NextLoad]_vars

\* The number of rows of the table for ad `creative` on day `date`.
RowsFor(rows, creative, date) ==
    Cardinality({k \in 1..Len(rows) : rows[k].CREATIVE = creative /\ rows[k].DATE = date})

\* C1: idempotent reload.  From any table state, two loads in succession of
\* the same non-empty dataset leave exactly one row per (ad, day) for each
\* date of that dataset in the table.
C1_IdempotentReload ==
    \A n \in 2..Len(loads) :
        (/\ n = Len(loads)
         /\ loads[n].data # <<>>
         /\ loads[n - 1].data = loads[n].data
         /\ loads[n - 1].status = "returned"
         /\ loads[n].status = "returned")
        => \A k \in 1..Len(loads[n].data) :
              RowsFor(table, loads[n].data[k].CREATIVE, loads[n].data[k].DATE) = 1

\* C2: empty dataset no-op.  A load called with zero rows issues no call to
\* the warehouse (neither a delete nor an append), returns normally and
\* leaves the table unchanged.
C2_EmptyDatasetNoOp ==
    \A n \in 1..Len(loads) :
        loads[n].data = <<>> =>
            /\ loads[n].calls = 0
            /\ loads[n].status = "returned"
            /\ (n = Len(loads) => table = loads[n].before)

\* A load with zero rows has been made on a table that holds rows, after a
\* load that did append.
C2_Witness ==
    /\ Len(loads) = 2
    /\ loads[1].data # <<>> /\ loads[1].status = "returned"
    /\ loads[2].data = <<>> /\ loads[2].status = "returned"
    /\ table # <<>> /\ Len(io) = 1

----------------------------------------------------------------------------
(* TikTokExtractor.get_report_data run on its own: SpecFetch *)

MaxTotalPage == 3

PageLists == {<<>>, <<Row1>>, <<Row2>>, <<Row1, Row2>>, <<Row3, Row1>>}

\* 40001 stands for any provider error code.
PageResponses ==
    {HttpFailure, Result(40001, <<>>, {}), Result(40001, <<Row1>>, {1})}
    \cup {Result(0, l, t) : l \in PageLists,
                            t \in {{}} \cup {{n} : n \in 0..MaxTotalPage}}

\* (start_date, end_date) pairs as day numbers, start <= end: one day, 30 days,
\* 31 days (the range main asks for), two months.
FetchRanges == {<<1, 1>>, <<1, 30>>, <<1, 31>>, <<1, 61>>}

InitFetch ==
    /\ pc = "fetch" /\ status = "running"
    /\ NoClock /\ NoDetail /\ NoWorld
    /\ raw_data = <<>> /\ ad_details = EmptyDict /\ transformed_data = <<>>
    /\ \E range \in FetchRanges : START_DATE = range[1] /\ END_DATE = range[2]
    /\ page = 1 /\ all_data = <<>> /\ responses = <<>>

\* One pass of the pagination loop of get_report_data(START_DATE, END_DATE).
FetchPage ==
    /\ pc = "fetch" /\ status = "running"
    /\ \E resp \in PageResponses :
        LET r == ReportPage(page, all_data, resp)
        IN  /\ io' = Append(io, ReportRequest(START_DATE, END_DATE, page))
            /\ responses' = Append(responses, resp)
            /\ page' = r.page
            /\ all_data' = r.all_data
            /\ log' = log \o r.log
            /\ status' = CASE r.ctl = "raise"  -> "raised"
                           [] r.ctl = "return" -> "returned"
                           [] OTHER            -> "running"
    /\ UNCHANGED <<pc, clockVars, START_DATE, END_DATE, detailVars, ad_details, raw_data,
                   transformed_data, table, watermark, loads>>

NextFetch == FetchPage

SpecFetch == InitFetch /\ [][NextFetch]_vars

\* The date windows requested, in order: each request for page 1 opens one.
RECURSIVE Windows(_)
Windows(calls) ==
    IF calls = <<>> THEN <<>>
    ELSE LET rest == Windows(SubSeq(calls, 1, Len(calls) - 1))
             last == calls[Len(calls)]
         IN  IF last.call = "POST /report/integrated/get/" /\ last.page = 1
             THEN Append(rest, <<last.start_date, last.end_date>>)
             ELSE rest

\* C4: window chunking covers the range exactly once.  The windows requested
\* for [start, end], in order, start at start, end at end, each starts the day
\* after the one before it ends, and each covers at most 30 days.
C4_WindowChunking ==
    (pc = "fetch" /\ status = "returned") =>
        LET w == Windows(io)
        IN  /\ w # <<>>
            /\ w[1][1] = START_DATE
            /\ w[Len(w)][2] = END_DATE
            /\ \A k \in 1..Len(w) - 1 : w[k + 1][1] = w[k][2] + 1
            /\ \A k \in 1..Len(w) : w[k][1] <= w[k][2] /\ w[k][2] - w[k][1] + 1 <= 30

\* The rows of the responses, concatenated in order.
RECURSIVE RowsOf(_)
RowsOf(resps) ==
    IF resps = <<>> THEN <<>> ELSE Head(resps).list \o RowsOf(Tail(resps))

\* Whether the successful response to the request for page pg is a last page.
LastPage(resp, pg) ==
    \/ resp.list = <<>>
    \/ pg >= (IF resp.total_page = {} THEN 1 ELSE CHOOSE n \in resp.total_page : TRUE)

\* C5: pagination.  The pages requested are 1, 2, 3, ... in order, none skipped
\* or repeated; a further page is requested only after successes that were
\* not a last page; and when every response is a success get_report_data
\* returns exactly the rows of the requested pages in page order, having
\* stopped at the first page that returned zero rows or whose number had
\* reached the total page count of its response.
C5_Pagination ==
    /\ Len(io) = Len(responses)
    /\ \A k \in 1..Len(io) : io[k].page = k
    /\ \A k \in 1..Len(responses) - 1 :
          responses[k].kind = "result" /\ responses[k].code = 0 /\ ~LastPage(responses[k], k)
    /\ (status = "running" /\ responses # <<>>) =>
          /\ page = Len(io) + 1
          /\ ~FetchFailed(responses[Len(responses)])
          /\ ~LastPage(responses[Len(responses)], Len(responses))
    /\ (status = "returned") =>
          /\ \A k \in 1..Len(responses) : ~FetchFailed(responses[k])
          /\ LastPage(responses[Len(responses)], Len(responses))
          /\ all_data = RowsOf(responses)
    /\ (responses # <<>> /\ \A k \in 1..Len(responses) : ~FetchFailed(responses[k])) =>
          status # "raised"

\* Three pages were requested and get_report_data returned their rows.
C5_Witness ==
    /\ status = "returned" /\ Len(io) = 3
    /\ responses[3].list # <<>>
    /\ Len(all_data) >= 4

\* The larger of two numbers.
Max(a, b) == IF a >= b THEN a ELSE b

\* Whether every response so far is a success that reports at most T pages,
\* a response without a page count counting as one page.
AllWithin(T) ==
    \A k \in 1..Len(responses) :
        /\ ~FetchFailed(responses[k])
        /\ (responses[k].total_page = {} \/ \A n \in responses[k].total_page : n <= T)

\* C16: pagination terminates.  For every T, while every response is a success
\* reporting at most T pages, at most max(T, 1) pages have been requested, the
\* page counter is at most max(T, 1), the call has not raised, and once
\* max(T, 1) pages have been requested get_report_data has returned.
C16_PaginationTerminates ==
    \A T \in 0..MaxTotalPage :
        AllWithin(T) =>
            /\ Len(io) <= Max(T, 1)
            /\ page <= Max(T, 1)
            /\ status # "raised"
            /\ Len(io) = Max(T, 1) => status = "returned"

\* get_report_data returned at the last page the responses allowed for: every
\* response reported MaxTotalPage pages and carried rows, and as many pages
\* were requested.
C16_Witness ==
    /\ status = "returned" /\ Len(io) = MaxTotalPage /\ page = MaxTotalPage
    /\ \A k \in 1..Len(responses) :
          /\ ~FetchFailed(responses[k])
          /\ responses[k].total_page = {MaxTotalPage}
          /\ responses[k].list # <<>>

----------------------------------------------------------------------------
(* TikTokExtractor.get_ad_details run on its own: SpecDetail *)

\* Lists of ad ids of these lengths: none, one batch, a full batch, one over,
\* two full batches and one over.  With `distinct` ids every id is its own;
\* otherwise the ids repeat every 60 entries.
IdList(n, distinct) ==
    [k \in 1..n |-> Str(ToString(IF distinct THEN k ELSE ((k - 1) % 60) + 1))]

IdLists == {IdList(n, d) : n \in {0, 1, 100, 101, 200, 201}, d \in BOOLEAN}

AdLists ==
    {<<>>,
     <<Ad("1", "Video A")>>,
     <<Ad("1", "Video A"), Ad("2", "Video B")>>,
     <<Ad("2", "Video B renamed")>>,
     <<Ad("101", "Video C"), AdWithoutId("Video D"), Ad("102", "Video E")>>}

DetailResponses ==
    {HttpFailure, Result(40001, <<>>, {}), Result(40001, <<Ad("3", "Video F")>>, {})}
    \cup {Result(0, l, {}) : l \in AdLists}

InitDetail ==
    /\ pc = "details" /\ status = "running"
    /\ NoClock /\ NoFetch /\ NoWorld
    /\ raw_data = <<>> /\ transformed_data = <<>>
    /\ ad_ids \in IdLists
    /\ batch_start = 0 /\ ad_details = EmptyDict /\ outcomes = <<>>

\* One pass of `for i in range(0, len(ad_ids), batch_size)`.
DetailStep ==
    /\ pc = "details" /\ status = "running"
    /\ batch_start < Len(ad_ids)
    /\ \E resp \in DetailResponses :
        LET batch_ids == BatchIds(ad_ids, batch_start)
            r == DetailBatch(ad_details, resp)
        IN  /\ io' = Append(io, DetailRequest(batch_ids))
            /\ outcomes' = Append(outcomes, [batch |-> batch_ids, resp |-> resp])
            /\ ad_details' = r.details
            /\ log' = log \o r.log
            /\ batch_start' = batch_start + batch_size
    /\ UNCHANGED <<pc, status, clockVars, fetchVars, ad_ids, raw_data, transformed_data,
                   table, watermark, loads>>

\* `return ad_details` once the loop has run out of batches
DetailReturn ==
    /\ pc = "details" /\ status = "running"
    /\ batch_start >= Len(ad_ids)
    /\ pc' = "done" /\ status' = "returned"
    /\ UNCHANGED <<clockVars, fetchVars, detailVars, ad_details, raw_data, transformed_data,
                   io, table, log, watermark, loads>>

NextDetail == DetailStep \/ DetailReturn

SpecDetail == InitDetail /\ [][NextDetail]_vars

\* The batches of at most 100 consecutive ids that partition ids.
RECURSIVE Partition(_)
Partition(ids) ==
    IF ids = <<>> THEN <<>>
    ELSE IF Len(ids) <= 100 THEN <<ids>>
    ELSE <<SubSeq(ids, 1, 100)>> \o Partition(SubSeq(ids, 101, Len(ids)))

\* C8: detail lookup batching.  The ids are partitioned into consecutive
\* batches of at most 100, every id in exactly one batch; one request is
\* issued per batch (none for an empty list); and each request asks the
\* provider for the ids of its own batch.
C8_DetailBatching ==
    LET batches == Partition(ad_ids)
    IN  /\ Len(io) <= Len(batches)
        /\ (pc = "done" => Len(io) = Len(batches))
        /\ \A k \in 1..Len(io) :
              /\ outcomes[k].batch = batches[k]
              /\ "filtering" \in DOMAIN io[k].params
              /\ io[k].params.filtering.ad_ids = batches[k]

\* Whether a batch succeeded: a result with code 0 whose every ad has an id.
BatchSucceeded(resp) ==
    /\ resp.kind = "result" /\ resp.code = 0
    /\ \A k \in 1..Len(resp.list) : "ad_id" \in DOMAIN resp.list[k]

\* The ads of the batches that succeeded, in order.
RECURSIVE AdsOfSucceeded(_)
AdsOfSucceeded(outs) ==
    IF outs = <<>> THEN <<>>
    ELSE (IF BatchSucceeded(Head(outs).resp) THEN Head(outs).resp.list ELSE <<>>)
         \o AdsOfSucceeded(Tail(outs))

\* C9: detail lookup partial tolerance.  A failed batch (exception or provider
\* error code) is skipped, the remaining batches are still requested, and
\* get_ad_details returns without raising a mapping that holds exactly the ad
\* records of the batches that succeeded (per id, the record written last).
C9_PartialTolerance ==
    /\ status # "raised"
    /\ (pc = "done" =>
          /\ status = "returned"
          /\ Len(io) = Len(Partition(ad_ids))
          /\ LET ads == AdsOfSucceeded(outcomes)
             IN  /\ DOMAIN ad_details = {ads[k].ad_id : k \in 1..Len(ads)}
                 /\ \A k \in 1..Len(ads) :
                       (\A j \in k + 1..Len(ads) : ads[j].ad_id # ads[k].ad_id)
                       => ad_details[ads[k].ad_id] = ads[k])

----------------------------------------------------------------------------
(* main: one run of the pipeline after another: Spec *)

MaxRuns == 2

\* timedelta(days=30), the look-back of main
LookbackDays == 30

\* datetime.now(): a day number and the second of the day
Nows == {<<40, 0>>, <<40, 86399>>, <<41, 43200>>}

\* (t - timedelta(days=n)).strftime("%Y-%m-%d"): the day, the time of day dropped
DateMinus(t, n) == t[1] - n

\* A row as the API sends it when its numbers come as strings.
RowOfStrings ==
    RawRow(Str("a1"), Str("2025-03-05"), Str("1000"), Str("900"), Str("700"),
           Str("100.0"), Str("50"))

MainPageResponses ==
    {HttpFailure, Result(40001, <<>>, {}),
     Result(0, <<>>, {0}), Result(0, <<Row1>>, {}), Result(0, <<Row1, Row2>>, {2}),
     Result(0, <<Row3>>, {1}), Result(0, <<RowOfStrings>>, {1})}

MainDetailResponses ==
    {HttpFailure, Result(40001, <<>>, {}),
     Result(0, <<Ad("a1", "Video A")>>, {}),
     Result(0, <<Ad("a2", "Video B"), AdWithoutId("Video D")>>, {})}

\* The watermark store before the first run: nothing, or an earlier date.
WatermarkStates == {{}, {38}}

\* [row.get("dimensions", {}).get("ad_id") for row in raw_data
\*  if row.get("dimensions", {}).get("ad_id")]
RECURSIVE AdIdsOf(_)
AdIdsOf(rows) ==
    IF rows = <<>> THEN <<>>
    ELSE (IF Truthy(DimensionOf(Head(rows), "ad_id"))
          THEN <<DimensionOf(Head(rows), "ad_id")>> ELSE <<>>) \o AdIdsOf(Tail(rows))

Init ==
    /\ pc = "idle" /\ status = "idle"
    /\ NoClock /\ NoFetch /\ NoDetail
    /\ raw_data = <<>> /\ ad_details = EmptyDict /\ transformed_data = <<>>
    /\ io = <<>> /\ log = <<>> /\ loads = <<>>
    /\ table = <<>>
    /\ watermark \in WatermarkStates

\* main up to its first request: the date range, the extractor, the first
\* payload of get_report_data.  io, log and status are those of this run.
MainStart ==
    /\ pc = "idle"
    /\ runs < MaxRuns
    /\ runs' = runs + 1
    /\ \E t \in Nows :
        /\ now' = t
        /\ END_DATE' = DateMinus(t, 1)
        /\ START_DATE' = DateMinus(t, 1 + LookbackDays)
    /\ log' = <<"info: Starting TikTok ETL pipeline", "info: Date range">>
    /\ page' = 1 /\ all_data' = <<>> /\ responses' = <<>>
    /\ ad_ids' = <<>> /\ batch_start' = 0 /\ ad_details' = EmptyDict /\ outcomes' = <<>>
    /\ raw_data' = <<>> /\ transformed_data' = <<>>
    /\ io' = <<>> /\ loads' = <<>>
    /\ status' = "running"
    /\ pc' = "fetch"
    /\ UNCHANGED <<table, watermark>>

\* One pass of the pagination loop inside main.  An exception goes through
\* both handlers of get_report_data (log, raise) and through main's (log,
\* raise): the run ends.  On return main builds ad_ids and enters
\* get_ad_details.
MainFetchPage ==
    /\ pc = "fetch"
    /\ \E resp \in MainPageResponses :
        LET r == ReportPage(page, all_data, resp)
        IN  /\ io' = Append(io, ReportRequest(START_DATE, END_DATE, page))
            /\ responses' = Append(responses, resp)
            /\ page' = r.page
            /\ all_data' = r.all_data
            /\ CASE r.ctl = "raise" ->
                    /\ log' = log \o r.log \o <<"error: Pipeline failed">>
                    /\ status' = "raised" /\ pc' = "idle"
                    /\ UNCHANGED <<raw_data, ad_ids>>
                 [] r.ctl = "return" ->
                    /\ log' = log \o r.log
                    /\ raw_data' = r.all_data
                    /\ ad_ids' = AdIdsOf(r.all_data)
                    /\ pc' = "details"
                    /\ UNCHANGED status
                 [] OTHER ->
                    /\ log' = log \o r.log
                    /\ UNCHANGED <<status, pc, raw_data, ad_ids>>
    /\ UNCHANGED <<clockVars, START_DATE, END_DATE, batch_start, ad_details, outcomes,
                   transformed_data, table, watermark, loads>>

\* One pass of the batch loop of get_ad_details inside main.
MainDetailStep ==
    /\ pc = "details"
    /\ batch_start < Len(ad_ids)
    /\ \E resp \in MainDetailResponses :
        LET batch_ids == BatchIds(ad_ids, batch_start)
            r == DetailBatch(ad_details, resp)
        IN  /\ io' = Append(io, DetailRequest(batch_ids))
            /\ outcomes' = Append(outcomes, [batch |-> batch_ids, resp |-> resp])
            /\ ad_details' = r.details
            /\ log' = log \o r.log
            /\ batch_start' = batch_start + batch_size
    /\ UNCHANGED <<pc, status, clockVars, fetchVars, ad_ids, raw_data, transformed_data,
                   table, watermark, loads>>

\* get_ad_details returns; main maps the rows (step 3) and builds the loader.
\* An exception of the mapping goes through main's handler: the run ends.
MainTransform ==
    /\ pc = "details"
    /\ batch_start >= Len(ad_ids)
    /\ LET r == transform_to_bigquery_schema(raw_data, ad_details)
       IN  IF r.ok
           THEN /\ transformed_data' = r.val
                /\ log' = Append(log, "info: Transformed rows")
                /\ pc' = "load"
                /\ UNCHANGED status
           ELSE /\ log' = Append(log, "error: Pipeline failed")
                /\ status' = "raised" /\ pc' = "idle"
                /\ UNCHANGED transformed_data
    /\ UNCHANGED <<clockVars, fetchVars, detailVars, ad_details, raw_data, io, table,
                   watermark, loads>>

\* The end of main with the exception of load_data swallowed: the success
\* line is logged whether or not the load job succeeded.
MainLoadSwallowing ==
    /\ pc = "load"
    /\ \E job_ok \in BOOLEAN :
        LET r == load_data(transformed_data, "WRITE_APPEND", job_ok, World(io, table, log))
        IN  /\ io' = r.world.io
            /\ table' = r.world.table
            /\ log' = Append(r.world.log, "info: TikTok ETL pipeline completed successfully")
            /\ status' = "returned"
            /\ loads' = Append(loads, [data |-> transformed_data, status |-> r.status,
                                       calls |-> Len(r.world.io) - Len(io),
                                       before |-> table])
    /\ pc' = "idle"
    /\ UNCHANGED <<clockVars, fetchVars, detailVars, ad_details, raw_data, transformed_data,
                   watermark>>

\* loader.load_data(transformed_data, write_disposition="WRITE_APPEND") and
\* the end of main: the success line, or main's handler (log, raise).
MainLoad ==
    /\ pc = "load"
    /\ \E job_ok \in BOOLEAN :
        LET r == load_data(transformed_data, "WRITE_APPEND", job_ok, World(io, table, log))
        IN  /\ io' = r.world.io
            /\ table' = r.world.table
            /\ log' = Append(r.world.log,
                             IF r.status = "returned"
                             THEN "info: TikTok ETL pipeline completed successfully"
                             ELSE "error: Pipeline failed")
            /\ status' = r.status
            /\ loads' = Append(loads, [data |-> transformed_data, status |-> r.status,
                                       calls |-> Len(r.world.io) - Len(io),
                                       before |-> table])
    /\ pc' = "idle"
    /\ UNCHANGED <<clockVars, fetchVars, detailVars, ad_details, raw_data, transformed_data,
                   watermark>>

Next == MainStart \/ MainFetchPage \/ MainDetailStep \/ MainTransform \/ MainLoad

Spec == Init /\ [][Next]_vars

\* The run has ended (main returned or raised).
RunEnded == pc = "idle" /\ runs > 0

\* The warehouse append of this run failed / succeeded.
AppendFailed    == loads # <<>> /\ loads[Len(loads)].status = "raised"
AppendSucceeded == loads # <<>> /\ loads[Len(loads)].status = "returned"
                                /\ loads[Len(loads)].calls = 1

\* C3: watermark advance only on success.  Every step of a run leaves the
\* persisted watermark as it was, but for the step in which the load
\* succeeds: that step sets the watermark to the run's end_date (so a run
\* whose append fails leaves it unchanged, and it is never written before the
\* load has succeeded).
C3_WatermarkOnlyOnSuccess ==
    [][IF pc = "load" /\ AppendSucceeded'
       THEN watermark' = {END_DATE}
       ELSE watermark' = watermark]_vars

\* C6: fetch failure policy.  A provider error response or a network failure
\* on a page is logged and does not end the run: once a page request has
\* failed the run still goes on, so a run that has ended after such a failure
\* has gone through the lookup, mapping and load stages.
C6_FetchFailurePolicy ==
    (\E k \in 1..Len(responses) : FetchFailed(responses[k])) =>
        /\ \E j \in 1..Len(log) : log[j] \in {"error: HTTP request failed",
                                              "error: TikTok API error"}
        /\ RunEnded => /\ \E j \in 1..Len(log) : log[j] = "info: Transformed rows"
                       /\ loads # <<>>

\* C7: completion status.  A run ends with a failure exactly when its
\* warehouse append failed: a failure of the metrics fetch or of the detail
\* lookup never ends the run with a failure, an append failure always does.
C7_CompletionStatus ==
    RunEnded =>
        /\ status \in {"returned", "raised"}
        /\ (status = "raised") <=> AppendFailed

\* The stage a call belongs to: 1 metrics fetch, 2 detail lookup, 3 load.
StageOf(call) ==
    CASE call = "POST /report/integrated/get/" -> 1
      [] call = "GET /ad/get/"                 -> 2
      [] call = "load_table_from_json"         -> 3

\* The positions in io of the calls of a stage.
CallsOf(stage) == {k \in 1..Len(io) : StageOf(io[k].call) = stage}

\* Whether the line is in the run's log.
Logged(line) == \E j \in 1..Len(log) : log[j] = line

\* C15: stage ordering within a run.  The run's calls are in stage order:
\* every metrics page request, then every detail request, then the load.  A
\* detail request is sent only when every page request has been answered and
\* get_report_data has returned; the load is called only when every batch of
\* the detail lookup has been requested and the mapping has returned, and it
\* loads the mapped rows; and the success line is the last line of a run whose
\* load_data has returned without an exception, after its load job if it
\* issued one.
C15_StageOrdering ==
    /\ \A i, j \in 1..Len(io) : i < j => StageOf(io[i].call) <= StageOf(io[j].call)
    /\ CallsOf(2) # {} =>
          /\ Cardinality(CallsOf(1)) = Len(responses)
          /\ ~FetchFailed(responses[Len(responses)])
          /\ LastPage(responses[Len(responses)], Len(responses))
          /\ Logged("info: Successfully fetched rows")
          /\ raw_data = all_data
    /\ CallsOf(3) # {} =>
          /\ Logged("info: Successfully fetched rows")
          /\ batch_start >= Len(ad_ids)
          /\ Cardinality(CallsOf(2)) = Len(outcomes)
          /\ Len(outcomes) * batch_size >= Len(ad_ids)
          /\ Logged("info: Transformed rows")
          /\ Cardinality(CallsOf(3)) = 1
          /\ io[Len(io)].rows = transformed_data
          /\ Len(transformed_data) = Len(raw_data)
    /\ Logged("info: TikTok ETL pipeline completed successfully") =>
          /\ log[Len(log)] = "info: TikTok ETL pipeline completed successfully"
          /\ RunEnded /\ status = "returned"
          /\ Logged("info: Transformed rows")
          /\ loads # <<>> /\ loads[Len(loads)].status = "returned"
          /\ transformed_data # <<>> =>
                 /\ CallsOf(3) # {}
                 /\ Logged("info: Loaded rows")

\* A run has gone through every stage: two metrics pages, one detail
\* request, the mapping and a load job that succeeded, then the success line.
C15_Witness ==
    /\ RunEnded /\ status = "returned"
    /\ Len(io) = 4
    /\ CallsOf(1) = {1, 2} /\ CallsOf(2) = {3} /\ CallsOf(3) = {4}
    /\ log[Len(log)] = "info: TikTok ETL pipeline completed successfully"
    /\ table # <<>>

====
